---- MODULE Spec2Model ----
(***************************************************************************)
(* Model of src/app.py, the Streamlit "Stuck Orders Analysis" script.      *)
(*                                                                         *)
(* The script is re-executed top to bottom on every user interaction       *)
(* (upload, widget change).  One action of the model is one such           *)
(* interaction followed by the whole script run it triggers.  The state    *)
(* is the uploaded table, the widget values Streamlit keeps between runs   *)
(* and the tables the last run computed.                                   *)
(*                                                                         *)
(* Conventions                                                             *)
(*  - an instant is an integer number of ticks since 2024-01-01T00:00Z,    *)
(*    TicksPerDay ticks to a day, so that sub-day remainders exist;        *)
(*  - a Python str is the sequence of its code points, so that             *)
(*    comparison, join and substring search are computed, not assumed;     *)
(*  - a float cell that pandas may leave as NaN is NaN (the empty tuple)   *)
(*    or <<n>>;                                                            *)
(*  - a percentage is the exact fraction [num, den].                       *)
(*  - empty CSV cells (NaT / NaN inputs) are outside the model.            *)
(***************************************************************************)
EXTENDS Integers, Sequences, FiniteSets, TLC

(***************************************************************************)
(* Bounds of the model.                                                    *)
(***************************************************************************)
MaxRows == 2          \* rows of an uploaded table of the general family
TicksPerDay == 2      \* resolution of an instant: half days
MaxStuckOrders == 7   \* the most stuck orders of one account

(***************************************************************************)
(* Generic helpers.                                                        *)
(***************************************************************************)
Range(s) == {s[i] : i \in DOMAIN s}

Max(S) == CHOOSE x \in S : \A y \in S : y <= x
Min(S) == CHOOSE x \in S : \A y \in S : x <= y

\* pandas NaN in a float column
NaN == <<>>
IsNaN(x) == x = <<>>
Num(n) == <<n>>
Val(x) == x[1]

(***************************************************************************)
(* Python str: code points, lexicographic order, join, substring.          *)
(***************************************************************************)
\* str.__lt__ : lexicographic comparison by code point
RECURSIVE StrLess(_, _)
StrLess(a, b) ==
  IF a = <<>> THEN b # <<>>
  ELSE IF b = <<>> THEN FALSE
  ELSE IF Head(a) # Head(b) THEN Head(a) < Head(b)
  ELSE StrLess(Tail(a), Tail(b))

StrLeq(a, b) == a = b \/ StrLess(a, b)

\* ', ' : comma, space
Separator == <<44, 32>>

\* ', '.join(xs)
RECURSIVE join(_)
join(xs) ==
  IF xs = <<>> THEN <<>>
  ELSE IF Len(xs) = 1 THEN xs[1]
  ELSE xs[1] \o Separator \o join(Tail(xs))

\* Series.str.contains(pat) for a pattern without regex metacharacters:
\* pat occurs somewhere in s
str_contains(s, pat) ==
  \E i \in 1..(Len(s) + 1) :
    /\ i + Len(pat) - 1 <= Len(s)
    /\ SubSeq(s, i, i + Len(pat) - 1) = pat

\* sorted(xs) of a set of str
RECURSIVE sorted(_)
sorted(S) ==
  IF S = {} THEN <<>>
  ELSE LET m == CHOOSE x \in S : \A y \in S : StrLeq(x, y)
       IN <<m>> \o sorted(S \ {m})

\* Series.unique(): distinct values in order of first appearance
RECURSIVE unique(_)
unique(xs) ==
  IF xs = <<>> THEN <<>>
  ELSE LET init == unique(SubSeq(xs, 1, Len(xs) - 1))
           last == xs[Len(xs)]
       IN IF last \in Range(init) THEN init ELSE Append(init, last)

(***************************************************************************)
(* Calendar: pandas Timestamp -> Period('M') -> str.                        *)
(***************************************************************************)
\* instant 0 is the first day of this month
Epoch == <<2024, 1>>

IsLeap(y) == (y % 4 = 0 /\ y % 100 # 0) \/ y % 400 = 0

DaysInMonth(y, m) ==
  IF m = 2 THEN (IF IsLeap(y) THEN 29 ELSE 28)
  ELSE IF m \in {4, 6, 9, 11} THEN 30 ELSE 31

RECURSIVE CivilFromDays(_, _, _)
CivilFromDays(y, m, rem) ==
  IF rem < DaysInMonth(y, m) THEN <<y, m>>
  ELSE CivilFromDays(IF m = 12 THEN y + 1 ELSE y,
                     IF m = 12 THEN 1 ELSE m + 1,
                     rem - DaysInMonth(y, m))

\* Series.dt.to_period('M') : the calendar month <<year, month>> of an instant
to_period_M(ts) == CivilFromDays(Epoch[1], Epoch[2], ts \div TicksPerDay)

Digit(d) == 48 + d

\* Period.astype(str) : 'YYYY-MM'
year_month_str(p) ==
  << Digit(p[1] \div 1000), Digit((p[1] \div 100) % 10),
     Digit((p[1] \div 10) % 10), Digit(p[1] % 10),
     45,
     Digit(p[2] \div 10), Digit(p[2] % 10) >>

RECURSIVE DaysBeforeMonth(_, _)
DaysBeforeMonth(y, m) ==
  IF m = 1 THEN 0 ELSE DaysBeforeMonth(y, m - 1) + DaysInMonth(y, m - 1)

\* the instant of 2024-mm-dd plus half ticks, as pd.to_datetime parses it
Date2024(m, d, half) == (DaysBeforeMonth(Epoch[1], m) + d - 1) * TicksPerDay + half

\* whole days rounded toward zero
dt_days_TowardZero(delta) ==
  IF delta >= 0 THEN delta \div TicksPerDay ELSE -((-delta) \div TicksPerDay)

\* Timedelta.days : whole days of a difference of instants, rounded down
dt_days(delta) == delta \div TicksPerDay

(***************************************************************************)
(* Column names and values of the uploaded CSV.                            *)
(***************************************************************************)
RequiredColumns ==
  {"order_id", "account_id", "order_type_name", "order_created_timestamp",
   "travel_start_ts", "travel_end_ts"}

ExtendedColumns ==
  {"account_first_order_created_timestamp",
   "account_last_order_created_timestamp",
   "account_total_orders_during_analysis_period"}

\* order_type_name values: 'flight', 'train', 'airport_train'
flight == <<102, 108, 105, 103, 104, 116>>
train == <<116, 114, 97, 105, 110>>
airport_train == <<97, 105, 114, 112, 111, 114, 116, 95>> \o train

\* order_status_name values
eticket_issued == "eticket_issued"
paid == "paid"

(***************************************************************************)
(* Metric derivation, lines 34-41.                                         *)
(***************************************************************************)
\* days_stuck rounded toward zero, unlike the other two metrics
days_stuck_TowardZero(r, now) == dt_days_TowardZero(now - r.travel_end_ts)

\* df['days_stuck'] = (current_time - df['travel_end_ts']).dt.days
days_stuck(r, now) == dt_days(now - r.travel_end_ts)

\* df['order_to_travel_days'] = (travel_start_ts - order_created_timestamp).dt.days
order_to_travel_days(r) == dt_days(r.travel_start_ts - r.order_created_timestamp)

\* df['days_since_last_order'] = (current_time - account_last_order_created_timestamp).dt.days
days_since_last_order(r, now) ==
  dt_days(now - r.account_last_order_created_timestamp)

\* timestamp_cols, lines 24-28: the account timestamps are added when the
\* FIRST-order column exists
ParsesAccountTimestamps(columns) ==
  "account_first_order_created_timestamp" \in columns

timestamp_cols(columns) ==
  {"order_created_timestamp", "travel_start_ts", "travel_end_ts"}
    \cup (IF ParsesAccountTimestamps(columns)
          THEN {"account_first_order_created_timestamp",
                "account_last_order_created_timestamp"}
          ELSE {})

\* the columns pd.to_datetime is applied to, lines 30-32
parsed_cols(file) == timestamp_cols(file.columns) \cap file.columns

\* days_since_last_order is computed when the LAST-order column exists, line 40
ComputesDaysSince(columns) == "account_last_order_created_timestamp" \in columns

\* outcomes of the statements of lines 21-55
Ingested == "ingested"
ParseError == "ValueError: to_datetime cannot parse the value"
DaysStuckError == "KeyError: 'travel_end_ts'"
OrderToTravelError == "KeyError: line 37"
DaysSinceError == "TypeError: line 41, datetime minus str"
OverviewError == "KeyError: lines 50-52"

\* the first statement of lines 21-55 that raises on this file, if any.
\* file.unparseable are the columns holding a value to_datetime rejects.
ingestion_outcome(file) ==
  IF parsed_cols(file) \cap file.unparseable # {} THEN ParseError
  ELSE IF "travel_end_ts" \notin file.columns THEN DaysStuckError
  ELSE IF {"travel_start_ts", "order_created_timestamp"} \ file.columns # {}
    THEN OrderToTravelError
  ELSE IF /\ ComputesDaysSince(file.columns)
          /\ "account_last_order_created_timestamp" \notin parsed_cols(file)
    THEN DaysSinceError
  ELSE IF {"account_id", "order_type_name"} \ file.columns # {} THEN OverviewError
  ELSE Ingested

\* the statements of lines 36-41 that were executed
DerivesDaysStuck(file) ==
  ingestion_outcome(file) \notin {ParseError, DaysStuckError}

DerivesOrderToTravel(file) ==
  DerivesDaysStuck(file) /\ ingestion_outcome(file) # OrderToTravelError

DerivesDaysSince(file) ==
  /\ DerivesOrderToTravel(file)
  /\ ingestion_outcome(file) # DaysSinceError
  /\ ComputesDaysSince(file.columns)

\* the table after lines 21-41: every row of the file with the derived columns
\* the run got to compute
derive(file, now) ==
  [ i \in DOMAIN file.rows |->
      LET r == file.rows[i] IN
      r @@ (IF DerivesDaysStuck(file)
            THEN [ days_stuck |-> days_stuck(r, now) ] ELSE << >>)
        @@ (IF DerivesOrderToTravel(file)
            THEN [ order_to_travel_days |-> order_to_travel_days(r) ] ELSE << >>)
        @@ (IF DerivesDaysSince(file)
            THEN [ days_since_last_order |-> days_since_last_order(r, now) ]
            ELSE << >>) ]

\* sorted(df['order_type_name'].unique()), the options of the vertical filter
all_verticals(d) == sorted({d[i].order_type_name : i \in DOMAIN d})

\* sorted(df['order_status_name'].unique()), as a set of options
all_statuses(d) == {d[i].order_status_name : i \in DOMAIN d}

min_days(d) == Min({d[i].days_stuck : i \in DOMAIN d})
max_days(d) == Max({d[i].days_stuck : i \in DOMAIN d})

(***************************************************************************)
(* Filter, lines 79-97.                                                    *)
(***************************************************************************)
\* the upper bound of the range taken as exclusive
RowPasses_ExclusiveUpper(r, columns, sel_verticals, range, sel_statuses) ==
  /\ r.order_type_name \in sel_verticals
  /\ r.days_stuck >= range[1]
  /\ r.days_stuck < range[2]
  /\ ("order_status_name" \in columns => r.order_status_name \in sel_statuses)

\* an empty vertical selection taken as "no restriction"
RowPasses_EmptyAllowsAll(r, columns, sel_verticals, range, sel_statuses) ==
  /\ (sel_verticals = {} \/ r.order_type_name \in sel_verticals)
  /\ r.days_stuck >= range[1]
  /\ r.days_stuck <= range[2]
  /\ ("order_status_name" \in columns => r.order_status_name \in sel_statuses)

RowPasses(r, columns, sel_verticals, range, sel_statuses) ==
  /\ r.order_type_name \in sel_verticals
  /\ r.days_stuck >= range[1]
  /\ r.days_stuck <= range[2]
  /\ ("order_status_name" \in columns => r.order_status_name \in sel_statuses)

filtered(d, columns, sel_verticals, range, sel_statuses) ==
  SelectSeq(d, LAMBDA r : RowPasses(r, columns, sel_verticals, range, sel_statuses))

(***************************************************************************)
(* Cohort aggregation, lines 200-218.                                      *)
(***************************************************************************)
AccountsOf(fdf) == {fdf[i].account_id : i \in DOMAIN fdf}

\* filtered_df.groupby('account_id')['travel_end_ts'].min()
first_stuck_order_date(fdf, a) ==
  Min({fdf[i].travel_end_ts : i \in {j \in DOMAIN fdf : fdf[j].account_id = a}})

\* user_first_impact: account_id -> [first_stuck_order_date, year_month]
user_first_impact_of(fdf) ==
  [ a \in AccountsOf(fdf) |->
      [ first_stuck_order_date |-> first_stuck_order_date(fdf, a),
        year_month |-> to_period_M(first_stuck_order_date(fdf, a)) ] ]

\* monthly_new_users: year_month_str -> new_users_impacted
monthly_new_users_of(ufi) ==
  [ k \in {year_month_str(ufi[a].year_month) : a \in DOMAIN ufi} |->
      Cardinality({a \in DOMAIN ufi : year_month_str(ufi[a].year_month) = k}) ]

\* monthly_orders: year_month_str -> total_stuck_orders
monthly_orders_of(fdf) ==
  [ k \in {year_month_str(to_period_M(fdf[i].travel_end_ts)) : i \in DOMAIN fdf} |->
      Cardinality({i \in DOMAIN fdf :
                     year_month_str(to_period_M(fdf[i].travel_end_ts)) = k}) ]

\* Series.cumsum() with skipna=True: a NaN cell stays NaN, the running sum
\* carries over it
RECURSIVE cumsum_from(_, _)
cumsum_from(xs, acc) ==
  IF xs = <<>> THEN <<>>
  ELSE IF IsNaN(Head(xs)) THEN <<NaN>> \o cumsum_from(Tail(xs), acc)
  ELSE <<Num(acc + Val(Head(xs)))>> \o cumsum_from(Tail(xs), acc + Val(Head(xs)))

cumsum(xs) == cumsum_from(xs, 0)

\* monthly_new_users.merge(monthly_orders, on='year_month_str', how='outer')
\*   .sort_values('year_month_str'), then cumulative_users = cumsum()
monthly_impact_of(fdf) ==
  LET new == monthly_new_users_of(user_first_impact_of(fdf))
      ord == monthly_orders_of(fdf)
      keys == sorted(DOMAIN new \cup DOMAIN ord)
      merged == [ i \in DOMAIN keys |->
                   [ year_month_str |-> keys[i],
                     new_users_impacted |->
                       IF keys[i] \in DOMAIN new THEN Num(new[keys[i]]) ELSE NaN,
                     total_stuck_orders |->
                       IF keys[i] \in DOMAIN ord THEN Num(ord[keys[i]]) ELSE NaN ] ]
      cum == cumsum([ i \in DOMAIN merged |-> merged[i].new_users_impacted ])
  IN [ i \in DOMAIN merged |-> merged[i] @@ [ cumulative_users |-> cum[i] ] ]

\* len(user_first_impact[user_first_impact['year_month'].astype(str) <= month])
total_users_up_to_month(ufi, month) ==
  Cardinality({a \in DOMAIN ufi : StrLeq(year_month_str(ufi[a].year_month), month)})

\* a - b on two cells: NaN when either is NaN
minus(a, b) == IF IsNaN(a) \/ IsNaN(b) THEN NaN ELSE Num(Val(a) - Val(b))

\* monthly_impact with the columns of lines 314 and 333
with_composition(mi, ufi) ==
  [ i \in DOMAIN mi |->
      mi[i] @@ [ total_users_up_to_month |->
                   total_users_up_to_month(ufi, mi[i].year_month_str),
                 existing_users |->
                   minus(mi[i].cumulative_users, mi[i].new_users_impacted) ] ]

\* Series.ffill(): a NaN cell takes the last value before it
RECURSIVE ffill_from(_, _)
ffill_from(xs, last) ==
  IF xs = <<>> THEN <<>>
  ELSE IF IsNaN(Head(xs)) THEN <<last>> \o ffill_from(Tail(xs), last)
  ELSE <<Head(xs)>> \o ffill_from(Tail(xs), Head(xs))

ffill(xs) == ffill_from(xs, NaN)

\* Series.pct_change() * 100 as the fraction num / den; the first cell has no
\* predecessor.  pad: the series is forward-filled first (the default
\* fill_method before pandas 3.0).
pct_change(xs, pad) ==
  LET ys == IF pad THEN ffill(xs) ELSE xs
  IN [ i \in DOMAIN ys |->
        IF i = 1 \/ IsNaN(ys[i]) \/ IsNaN(ys[i - 1]) THEN NaN
        ELSE Num([ num |-> (Val(ys[i]) - Val(ys[i - 1])) * 100,
                   den |-> Val(ys[i - 1]) ]) ]

\* monthly_impact_display['mom_growth'], line 416
mom_growth_of(mi, pad) ==
  pct_change([ i \in DOMAIN mi |-> mi[i].new_users_impacted ], pad)

(***************************************************************************)
(* Churn / correlation analysis, lines 546-785.                            *)
(***************************************************************************)
\* the rows of one account, in table order
RowsOf(fdf, a) == SelectSeq(fdf, LAMBDA r : r.account_id = a)

\* the threshold taken as exclusive
user_status_Strict(days, threshold) == IF days > threshold THEN "Churned" ELSE "Active"

\* lambda x: 'Churned' if x >= churn_threshold else 'Active'
user_status(days, threshold) == IF days >= threshold THEN "Churned" ELSE "Active"

\* lambda x: 'After Last Order' if x < 0 else 'Before/During Active Period'
stuck_timing(days) ==
  IF days < 0 THEN "After Last Order" ELSE "Before/During Active Period"

\* the third bin closed on the left of 5 instead of the right
stuck_order_category_FiveInTop(count) ==
  IF count <= 0 THEN "NaN"
  ELSE IF count <= 1 THEN "1 stuck order"
  ELSE IF count <= 2 THEN "2 stuck orders"
  ELSE IF count < 5 THEN "3-5 stuck orders"
  ELSE "5+ stuck orders"

\* pd.cut(count, bins=[0, 1, 2, 5, inf], right=True)
stuck_order_category(count) ==
  IF count <= 0 THEN "NaN"
  ELSE IF count <= 1 THEN "1 stuck order"
  ELSE IF count <= 2 THEN "2 stuck orders"
  ELSE IF count <= 5 THEN "3-5 stuck orders"
  ELSE "5+ stuck orders"

Categories ==
  <<"1 stuck order", "2 stuck orders", "3-5 stuck orders", "5+ stuck orders">>

\* ', '.join(x.unique()) over the account's order_type_name values
affected_verticals(rows) ==
  join(unique([ i \in DOMAIN rows |-> rows[i].order_type_name ]))

\* one row of user_analysis (groupby('account_id').agg(...), lines 550-577)
profile(fdf, a, threshold) ==
  LET rows == RowsOf(fdf, a)
      first_stuck == Min({rows[i].travel_end_ts : i \in DOMAIN rows})
      last_order == rows[1].account_last_order_created_timestamp
      since == rows[1].days_since_last_order
      to_last == dt_days(last_order - first_stuck)
  IN [ account_id |-> a,
       stuck_orders_count |-> Len(rows),
       first_order_ts |-> rows[1].account_first_order_created_timestamp,
       last_order_ts |-> last_order,
       total_orders |-> rows[1].account_total_orders_during_analysis_period,
       first_stuck_experience_ts |-> first_stuck,
       days_since_last_order |-> since,
       affected_verticals |-> affected_verticals(rows),
       days_first_stuck_to_last_order |-> to_last,
       user_status |-> user_status(since, threshold),
       stuck_timing |-> stuck_timing(to_last),
       stuck_order_category |-> stuck_order_category(Len(rows)) ]

user_analysis_of(fdf, threshold) ==
  [ a \in AccountsOf(fdf) |-> profile(fdf, a, threshold) ]

Churned(users) == {a \in DOMAIN users : users[a].user_status = "Churned"}

\* Series.round(2) / round(x, 2) of the percentage 100 * p / q, q > 0, as the
\* number of hundredths; a tie goes to the even neighbour
round2(p, q) ==
  LET n == 10000 * p
      f == n \div q
      rem == n % q
  IN IF 2 * rem < q THEN f
     ELSE IF 2 * rem > q THEN f + 1
     ELSE IF f % 2 = 0 THEN f ELSE f + 1

\* churn_rate = (churned_users / total_users * 100) if total_users > 0 else 0
churn_rate_of(users) ==
  LET total_users == Cardinality(DOMAIN users)
      churned_users == Cardinality(Churned(users))
  IN IF total_users > 0
     THEN [ num |-> churned_users * 100, den |-> total_users ]
     ELSE [ num |-> 0, den |-> 1 ]

\* churn_by_stuck_count, lines 635-642: the division is unguarded, so a
\* category without users gets 0 / 0 = NaN.  The categories without users
\* are rows of the groupby only when pandas groups a categorical column with
\* observed=False (the default before pandas 3.0).
churn_by_stuck_count_of(users, observed) ==
  LET members(c) == {a \in DOMAIN users : users[a].stuck_order_category = c}
      shown == SelectSeq(Categories,
                         LAMBDA c : ~observed \/ members(c) # {})
  IN [ i \in DOMAIN shown |->
        LET total == Cardinality(members(shown[i]))
            churned == Cardinality(members(shown[i]) \cap Churned(users))
        IN [ category |-> shown[i],
             total_users |-> total,
             churned_users |-> churned,
             churn_rate |->
               IF total = 0 THEN NaN
               ELSE Num([ num |-> round2(churned, total), den |-> 100 ]) ] ]

\* user_analysis[user_analysis['affected_verticals'].str.contains(vertical)]
vertical_users(users, vertical) ==
  {a \in DOMAIN users : str_contains(users[a].affected_verticals, vertical)}

\* the list vertical_churn, lines 704-717, one row per
\* filtered_df['order_type_name'].unique()
vertical_churn_of(fdf, users) ==
  LET verticals == unique([ i \in DOMAIN fdf |-> fdf[i].order_type_name ])
  IN [ i \in DOMAIN verticals |->
        LET members == vertical_users(users, verticals[i])
            total == Cardinality(members)
            churned == Cardinality(members \cap Churned(users))
        IN [ vertical |-> verticals[i],
             users |-> members,
             total_users |-> total,
             churned_users |-> churned,
             active_users |-> total - churned,
             churn_rate |->
               IF total > 0 THEN [ num |-> round2(churned, total), den |-> 100 ]
               ELSE [ num |-> 0, den |-> 100 ] ] ]

RECURSIVE SumSet(_)
SumSet(ps) ==
  IF ps = {} THEN 0
  ELSE LET p == CHOOSE q \in ps : TRUE IN p[2] + SumSet(ps \ {p})

\* user_analysis[['stuck_orders_count', 'is_churned']].corr().iloc[0, 1]
\* Pearson's r = sxy / sqrt(sxx * syy), kept as the three integer moments
\* (each times n^2); NaN when there are fewer than two rows or a series has
\* no variance (0 / 0).
correlation_of(users) ==
  LET n == Cardinality(DOMAIN users)
      x(a) == users[a].stuck_orders_count
      y(a) == IF users[a].user_status = "Churned" THEN 1 ELSE 0
      sx == SumSet({<<a, x(a)>> : a \in DOMAIN users})
      sy == SumSet({<<a, y(a)>> : a \in DOMAIN users})
      sxx == n * SumSet({<<a, x(a) * x(a)>> : a \in DOMAIN users}) - sx * sx
      syy == n * SumSet({<<a, y(a) * y(a)>> : a \in DOMAIN users}) - sy * sy
      sxy == n * SumSet({<<a, x(a) * y(a)>> : a \in DOMAIN users}) - sx * sy
  IN IF n < 2 \/ sxx = 0 \/ syy = 0 THEN NaN
     ELSE Num([ sxy |-> sxy, sxx |-> sxx, syy |-> syy ])

\* lines 771-776: abs(nan) < 0.3 and abs(nan) < 0.7 are both False, so NaN
\* falls through to the else branch
correlation_caption_of(c) ==
  IF ~IsNaN(c) /\ 100 * Val(c).sxy * Val(c).sxy < 9 * Val(c).sxx * Val(c).syy
    THEN "Weak correlation"
  ELSE IF ~IsNaN(c) /\ 100 * Val(c).sxy * Val(c).sxy < 49 * Val(c).sxx * Val(c).syy
    THEN "Moderate correlation"
  ELSE "Strong correlation"

\* f"{correlation:.3f}" renders NaN as 'nan'; a number is shown as a number
correlation_metric_of(c) == IF IsNaN(c) THEN "nan" ELSE "number"

\* before_during_users, line 669
before_during_users_of(users) ==
  {a \in DOMAIN users : users[a].stuck_timing = "Before/During Active Period"}

(***************************************************************************)
(* The uploaded files the model draws from.                                *)
(*                                                                         *)
(* A file is [columns, rows, unparseable].  Every row has all fields; a    *)
(* field whose column is not in the file is never read by the script;      *)
(* unparseable are the columns holding a value pd.to_datetime rejects.     *)
(* The files come in families; each family varies the fields one stage of  *)
(* the pipeline depends on and keeps the others fixed.                     *)
(***************************************************************************)
Jan01 == Date2024(1, 1, 0)
Jan05 == Date2024(1, 5, 0)
Jan09Noon == Date2024(1, 9, 1)
Jan10 == Date2024(1, 10, 0)
Jan15 == Date2024(1, 15, 0)
Jan16 == Date2024(1, 16, 0)
Jan31 == Date2024(1, 31, 0)
Feb20 == Date2024(2, 20, 0)
Mar01 == Date2024(3, 1, 0)
Mar01Noon == Date2024(3, 1, 1)
Mar02 == Date2024(3, 2, 0)
Mar05 == Date2024(3, 5, 0)

\* the instants datetime.now(timezone.utc) returns in the modelled session
Times == {Mar01, Mar02}

BaseColumns == RequiredColumns
StatusColumns == RequiredColumns \cup {"order_status_name"}
FullColumns == StatusColumns \cup ExtendedColumns

Row(i, account, vertical, status, travel_end, last_order) ==
  [ order_id |-> 1000 + i,
    account_id |-> account,
    order_type_name |-> vertical,
    order_status_name |-> status,
    order_created_timestamp |-> Jan01,
    travel_start_ts |-> Jan09Noon,
    travel_end_ts |-> travel_end,
    account_first_order_created_timestamp |-> Jan01,
    account_last_order_created_timestamp |-> last_order,
    account_total_orders_during_analysis_period |-> 5 ]

\* the variants <<account, vertical, status, travel_end, last_order>> of a row
FilterVariants ==
  {42} \X {flight, train} \X {eticket_issued, paid} \X {Jan15, Feb20} \X {Feb20}

PlainFilterVariants ==
  {42} \X {flight, train} \X {eticket_issued} \X {Jan15, Feb20} \X {Feb20}

CohortVariants ==
  {42, 43} \X {flight} \X {eticket_issued} \X {Jan10, Jan15, Feb20} \X {Feb20}

VerticalVariants ==
  ({42} \X {flight, train, airport_train} \X {eticket_issued} \X {Jan10} \X {Jan16})
    \cup
  ({43} \X {flight, train, airport_train} \X {eticket_issued} \X {Jan10} \X {Feb20})

TimingVariants ==
  {42} \X {flight} \X {eticket_issued} \X {Jan10, Feb20}
     \X {Jan05, Jan09Noon, Jan31}

Families ==
  { [ columns |-> StatusColumns, variants |-> FilterVariants ],
    [ columns |-> BaseColumns, variants |-> PlainFilterVariants ],
    [ columns |-> BaseColumns, variants |-> CohortVariants ],
    [ columns |-> FullColumns, variants |-> VerticalVariants ],
    [ columns |-> FullColumns, variants |-> TimingVariants ] }

TablesOver(variants) ==
  UNION { { [ i \in 1..n |-> Row(i, vs[i][1], vs[i][2], vs[i][3], vs[i][4], vs[i][5]) ]
            : vs \in [1..n -> variants] }
          : n \in 1..MaxRows }

\* three records, the last one travelling after the upload, with the order
\* created before, with or after the start of travel
MetricRow(i, travel_end, created, start, last_order) ==
  [ Row(i, 42, flight, eticket_issued, travel_end, last_order)
      EXCEPT !.order_created_timestamp = created, !.travel_start_ts = start ]

MetricTables ==
  { << MetricRow(1, Jan15, Jan01, Jan09Noon, last_order),
       MetricRow(2, Feb20, Jan01, Jan09Noon, last_order),
       MetricRow(3, travel_end, cs[1], cs[2], last_order) >>
      : travel_end \in {Mar01Noon, Mar05},
        cs \in {<<Jan01, Jan09Noon>>, <<Jan09Noon, Jan01>>, <<Jan05, Jan05>>},
        last_order \in {Feb20, Mar01Noon} }

\* one account with 1..MaxStuckOrders stuck orders
RepeatTables ==
  { [ i \in 1..n |-> Row(i, 42, flight, eticket_issued, Jan10, Feb20) ]
      : n \in 1..MaxStuckOrders }

\* one record under the column sets that lack a column, and under the full
\* schema with a timestamp to_datetime cannot parse
SchemaRows == << Row(1, 42, flight, eticket_issued, Jan15, Feb20) >>

TimestampColumns ==
  timestamp_cols(FullColumns)

SchemaFiles ==
  { [ columns |-> FullColumns \ {c}, rows |-> SchemaRows, unparseable |-> {} ]
      : c \in RequiredColumns \cup ExtendedColumns }
    \cup
  { [ columns |-> BaseColumns \cup {c}, rows |-> SchemaRows, unparseable |-> {} ]
      : c \in ExtendedColumns }
    \cup
  { [ columns |-> FullColumns, rows |-> SchemaRows, unparseable |-> {c} ]
      : c \in TimestampColumns }
    \cup
  { [ columns |-> BaseColumns \cup {"account_last_order_created_timestamp"},
      rows |-> SchemaRows,
      unparseable |-> {"account_last_order_created_timestamp"} ] }

Files ==
  SchemaFiles \cup
  UNION { { [ columns |-> f.columns, rows |-> t, unparseable |-> {} ]
              : t \in TablesOver(f.variants) }
          : f \in Families }
    \cup { [ columns |-> FullColumns, rows |-> t, unparseable |-> {} ]
             : t \in RepeatTables \cup MetricTables }

NoFile == [ columns |-> {}, rows |-> <<>>, unparseable |-> {} ]

(***************************************************************************)
(* State.                                                                  *)
(***************************************************************************)
VARIABLES
  uploaded_file,        \* the file in st.file_uploader, or NoFile
  current_time,         \* datetime.now(timezone.utc) of the last run
  selected_verticals,   \* widget state: "Select Verticals"
  days_range,           \* widget state: "Days Stuck Range"
  selected_statuses,    \* widget state: "Order Status"
  churn_threshold,      \* widget state: churn slider
  df,                   \* the table with its derived columns
  filtered_df,
  monthly_impact,
  mom_growth,           \* monthly_impact_display['mom_growth']
  user_analysis,
  churn_rate,
  churn_by_stuck_count,
  vertical_churn,
  correlation,
  correlation_metric,   \* text of st.metric("Stuck Orders <-> Churn")
  correlation_caption,
  outcome               \* how the last run ended

vars ==
  << uploaded_file, current_time, selected_verticals, days_range,
     selected_statuses, churn_threshold, df, filtered_df, monthly_impact,
     mom_growth, user_analysis, churn_rate, churn_by_stuck_count, vertical_churn,
     correlation, correlation_metric, correlation_caption, outcome >>

\* st.slider("Days since last order to consider 'Churned'", 7, 90, 30, 7)
churn_threshold_min == 7
churn_threshold_max == 90
churn_threshold_default == 30
churn_threshold_step == 7

\* the positions of the churn slider, and the ones the modelled user picks
churn_threshold_options ==
  { t \in churn_threshold_min..churn_threshold_max :
      (t - churn_threshold_min) % churn_threshold_step = 0 }

ThresholdChoices == {7, 56}

\* outcomes of a run
Done == "done"
NoUpload == "no_file"
PeakMonthError == "ValueError: attempt to get argmax of an empty sequence"
TimeToChurnError == "KeyError: 'time_to_churn_days'"

\* the analysis section runs, line 539
AnalysisGate(file) == "account_last_order_created_timestamp" \in file.columns

\* the run gets past line 223 (idxmax of an empty series raises)
PastPeakMonth(fdf) == fdf # <<>>

StatsError == "KeyError: 'order_id'"
ProfileError == "KeyError: line 550, column does not exist"

\* stats_df, lines 469-473, aggregates order_id
PastStats(file) == "order_id" \in file.columns

\* the run reaches the churn slider, line 547
ReachesAnalysis(file, fdf) ==
  /\ ingestion_outcome(file) = Ingested
  /\ PastPeakMonth(fdf)
  /\ PastStats(file)
  /\ AnalysisGate(file)

\* the aggregation of lines 550-558 finds its columns
ProfilesComputed(file, fdf) ==
  /\ ReachesAnalysis(file, fdf)
  /\ ExtendedColumns \subseteq file.columns

\* outcome of the script for a filtered table and its user profiles
outcome_of(file, fdf, users) ==
  IF ingestion_outcome(file) # Ingested THEN ingestion_outcome(file)
  ELSE IF ~PastPeakMonth(fdf) THEN PeakMonthError
  ELSE IF ~PastStats(file) THEN StatsError
  ELSE IF ~AnalysisGate(file) THEN Done
  ELSE IF ~ProfilesComputed(file, fdf) THEN ProfileError
  ELSE IF before_during_users_of(users) = {} THEN TimeToChurnError
  ELSE Done

(***************************************************************************)
(* One run of the script on `file` at instant `now` with the given widget  *)
(* values.  Whether groupby keeps the categories without rows (observed)   *)
(* depends on the installed pandas and is left open.                       *)
(***************************************************************************)
RunScript(file, now, verticals, range, statuses, threshold) ==
  /\ uploaded_file' = file
  /\ current_time' = now
  /\ selected_verticals' = verticals
  /\ days_range' = range
  /\ selected_statuses' = statuses
  /\ df' = derive(file, now)
  /\ filtered_df' =
       IF ingestion_outcome(file) = Ingested
       THEN filtered(df', file.columns, verticals, range, statuses) ELSE <<>>
  /\ \E mi \in {monthly_impact_of(filtered_df')},
        ufi \in {user_first_impact_of(filtered_df')} :
       monthly_impact' = with_composition(mi, ufi)
  /\ churn_threshold' =
       IF ReachesAnalysis(file, filtered_df') THEN threshold
       ELSE churn_threshold_default
  /\ IF ProfilesComputed(file, filtered_df')
     THEN /\ user_analysis' = user_analysis_of(filtered_df', threshold)
          /\ churn_rate' = churn_rate_of(user_analysis')
          /\ \E observed \in BOOLEAN :
               churn_by_stuck_count' = churn_by_stuck_count_of(user_analysis', observed)
          /\ vertical_churn' = vertical_churn_of(filtered_df', user_analysis')
          /\ correlation' = correlation_of(user_analysis')
          /\ correlation_metric' = correlation_metric_of(correlation')
          /\ correlation_caption' = correlation_caption_of(correlation')
     ELSE \* the analysis tables are not produced (a slider that is not
          \* rendered loses its value)
          /\ user_analysis' = <<>>
          /\ churn_rate' = [ num |-> 0, den |-> 1 ]
          /\ churn_by_stuck_count' = <<>>
          /\ vertical_churn' = <<>>
          /\ correlation' = NaN
          /\ correlation_metric' = "none"
          /\ correlation_caption' = "none"
  /\ outcome' = outcome_of(file, filtered_df', user_analysis')
  /\ \E pad \in BOOLEAN : mom_growth' = mom_growth_of(monthly_impact', pad)

Init ==
  /\ uploaded_file = NoFile
  /\ current_time = Mar01
  /\ selected_verticals = {}
  /\ days_range = <<0, 0>>
  /\ selected_statuses = {}
  /\ churn_threshold = churn_threshold_default
  /\ df = <<>>
  /\ filtered_df = <<>>
  /\ monthly_impact = <<>>
  /\ mom_growth = <<>>
  /\ user_analysis = <<>>
  /\ churn_rate = [ num |-> 0, den |-> 1 ]
  /\ churn_by_stuck_count = <<>>
  /\ vertical_churn = <<>>
  /\ correlation = NaN
  /\ correlation_metric = "none"
  /\ correlation_caption = "none"
  /\ outcome = NoUpload

\* the slider keeps its value while its bounds are the same; with other
\* bounds it is a new widget and starts at its default (min_days, max_days).
\* st.slider is taken to return a pair lo <= hi within its bounds, also when
\* min_days = max_days.
days_range_after(file, now, range) ==
  LET d == derive(file, now)
  IN IF <<min_days(d), max_days(d)>> = <<min_days(df), max_days(df)>>
     THEN range ELSE <<min_days(d), max_days(d)>>

Rerun(verticals, range, statuses, threshold) ==
  \E now \in Times :
    /\ now >= current_time
    /\ RunScript(uploaded_file, now, verticals,
                 days_range_after(uploaded_file, now, range),
                 statuses, threshold)

\* the sidebar filters of lines 58-85 were rendered by the last run
FiltersRendered ==
  uploaded_file # NoFile /\ ingestion_outcome(uploaded_file) = Ingested

\* the user uploads a CSV: every widget starts at its default (a run that
\* stops before line 58 renders no widget)
Upload ==
  /\ uploaded_file = NoFile
  /\ \E file \in Files, now \in Times :
       /\ now >= current_time
       /\ IF ingestion_outcome(file) = Ingested
          THEN LET d == derive(file, now)
               IN RunScript(file, now, Range(all_verticals(d)),
                            <<min_days(d), max_days(d)>>, all_statuses(d),
                            churn_threshold_default)
          ELSE RunScript(file, now, {}, <<0, 0>>, {}, churn_threshold_default)

\* the user changes "Select Verticals"
SelectVerticals ==
  /\ FiltersRendered
  /\ \E S \in SUBSET Range(all_verticals(df)) :
       /\ S # selected_verticals
       /\ Rerun(S, days_range, selected_statuses, churn_threshold)

\* the user changes "Order Status" (the widget exists with the column)
SelectStatuses ==
  /\ FiltersRendered
  /\ "order_status_name" \in uploaded_file.columns
  /\ \E S \in SUBSET all_statuses(df) :
       /\ S # selected_statuses
       /\ Rerun(selected_verticals, days_range, S, churn_threshold)

\* the user moves "Days Stuck Range"; the modelled user stops on observed values
SetDaysRange ==
  /\ FiltersRendered
  /\ \E lo, hi \in {df[i].days_stuck : i \in DOMAIN df} :
       /\ lo <= hi
       /\ <<lo, hi>> # days_range
       /\ Rerun(selected_verticals, <<lo, hi>>, selected_statuses, churn_threshold)

\* the user moves the churn slider (rendered when the last run reached line 547)
SetChurnThreshold ==
  /\ ReachesAnalysis(uploaded_file, filtered_df)
  /\ \E t \in ThresholdChoices \cap churn_threshold_options :
       /\ t # churn_threshold
       /\ Rerun(selected_verticals, days_range, selected_statuses, t)

Next ==
  \/ Upload
  \/ SelectVerticals
  \/ SelectStatuses
  \/ SetDaysRange
  \/ SetChurnThreshold

Spec == Init /\ [][Next]_vars

(***************************************************************************)
(* Properties.                                                             *)
(***************************************************************************)
Uploaded == uploaded_file # NoFile

\* the last run computed the user profiles (lines 539-577 were executed)
Analysed == Uploaded /\ ProfilesComputed(uploaded_file, filtered_df)

FilteredRows == Range(filtered_df)

MonthKey(ts) == year_month_str(to_period_M(ts))

\* the month keys of the accounts' earliest travel_end_ts
FirstImpactMonths ==
  { MonthKey(Min({r.travel_end_ts : r \in {q \in FilteredRows : q.account_id = a}}))
      : a \in {r.account_id : r \in FilteredRows} }

RecordMonths == { MonthKey(r.travel_end_ts) : r \in FilteredRows }

RECURSIVE SumDefined(_)
SumDefined(xs) ==
  IF xs = <<>> THEN 0
  ELSE (IF IsNaN(Head(xs)) THEN 0 ELSE Val(Head(xs))) + SumDefined(Tail(xs))

\* C1: in the monthly cohort series, ordered by month key, cumulative_users
\* is defined in every row and never decreases from a row to the next, and
\* new_users_impacted sums to the number of distinct account_id of the
\* filtered table.
C1_CumulativeDefinedMonotone ==
  Uploaded =>
    /\ \A i \in DOMAIN monthly_impact : ~IsNaN(monthly_impact[i].cumulative_users)
    /\ \A i \in DOMAIN monthly_impact :
         (i > 1 /\ ~IsNaN(monthly_impact[i].cumulative_users)
                /\ ~IsNaN(monthly_impact[i - 1].cumulative_users))
           => Val(monthly_impact[i - 1].cumulative_users)
                <= Val(monthly_impact[i].cumulative_users)
    /\ \A i \in DOMAIN monthly_impact :
         i > 1 => StrLess(monthly_impact[i - 1].year_month_str,
                          monthly_impact[i].year_month_str)
    /\ SumDefined([ i \in DOMAIN monthly_impact |-> monthly_impact[i].new_users_impacted ])
         = Cardinality({r.account_id : r \in FilteredRows})

\* a rate [num, den] lies in [0, 100]
InPercentRange(rate) == rate.den > 0 /\ 0 <= rate.num /\ rate.num <= 100 * rate.den

\* C2: every churn rate the analyzer computes (overall, per vertical, per
\* stuck_order_category bucket) is a defined value in [0, 100], and a
\* computation whose total-user denominator is 0 yields the rate 0.
C2_ChurnRatesDefinedInRange ==
  Analysed =>
    /\ InPercentRange(churn_rate)
    /\ (DOMAIN user_analysis = {} => churn_rate.num = 0)
    /\ \A i \in DOMAIN vertical_churn :
         /\ InPercentRange(vertical_churn[i].churn_rate)
         /\ vertical_churn[i].total_users = 0 => vertical_churn[i].churn_rate.num = 0
    /\ \A i \in DOMAIN churn_by_stuck_count :
         /\ ~IsNaN(churn_by_stuck_count[i].churn_rate)
         /\ InPercentRange(Val(churn_by_stuck_count[i].churn_rate))
         /\ churn_by_stuck_count[i].total_users = 0
              => Val(churn_by_stuck_count[i].churn_rate).num = 0

\* C3: a user profile is counted in the row of vertical V of the vertical
\* churn table iff V is an order_type_name of one of the account's filtered
\* stuck records.
C3_VerticalRowMembers ==
  Analysed =>
    \A i \in DOMAIN vertical_churn :
      /\ vertical_churn[i].users =
           { a \in DOMAIN user_analysis :
               \E r \in FilteredRows :
                 r.account_id = a /\ r.order_type_name = vertical_churn[i].vertical }
      /\ vertical_churn[i].total_users = Cardinality(vertical_churn[i].users)

Errors == {PeakMonthError, TimeToChurnError}

\* C4: with an empty filtered table the cohort series is empty and the run
\* ends without an error (its summaries report 'no data').
C4_EmptyFilterNoError ==
  (Uploaded /\ filtered_df = <<>>) =>
    /\ monthly_impact = <<>>
    /\ outcome \notin Errors

StrengthLabels == {"Weak correlation", "Moderate correlation", "Strong correlation"}

\* fewer than two profiles, or a series without variance
CorrelationDegenerate ==
  \/ Cardinality(DOMAIN user_analysis) < 2
  \/ \A a, b \in DOMAIN user_analysis :
       user_analysis[a].stuck_orders_count = user_analysis[b].stuck_orders_count
  \/ \A a, b \in DOMAIN user_analysis :
       user_analysis[a].user_status = user_analysis[b].user_status

\* C5: when there are fewer than 2 user profiles or a series has zero
\* variance, the correlation is reported as undefined: not as a number and
\* without a strength label.
C5_DegenerateCorrelationUndefined ==
  (Analysed /\ CorrelationDegenerate) =>
    /\ IsNaN(correlation)
    /\ correlation_metric # "number"
    /\ correlation_caption \notin StrengthLabels

\* C6: the monthly cohort table has one row per month key that is a first-
\* impact month or the travel_end_ts month of a filtered record; a month with
\* stuck orders but no newly impacted account has new_users_impacted = 0 and
\* the cumulative_users of the previous month.
C6_OuterJoinZeroFilled ==
  Uploaded =>
    /\ { monthly_impact[i].year_month_str : i \in DOMAIN monthly_impact }
         = FirstImpactMonths \cup RecordMonths
    /\ Len(monthly_impact) = Cardinality(FirstImpactMonths \cup RecordMonths)
    /\ \A i \in DOMAIN monthly_impact :
         monthly_impact[i].year_month_str \notin FirstImpactMonths =>
           /\ monthly_impact[i].new_users_impacted = Num(0)
           /\ monthly_impact[i].cumulative_users =
                (IF i = 1 THEN Num(0) ELSE monthly_impact[i - 1].cumulative_users)

\* the rows of the derived table the three predicates select
Selected(verticals, range, statuses) ==
  { r \in Range(df) :
      /\ r.order_type_name \in verticals
      /\ range[1] <= r.days_stuck /\ r.days_stuck <= range[2]
      /\ ("order_status_name" \in uploaded_file.columns
            => r.order_status_name \in statuses) }

\* sub is full with some rows left out, the others in their order
RECURSIVE IsSubsequence(_, _)
IsSubsequence(sub, full) ==
  IF sub = <<>> THEN TRUE
  ELSE IF full = <<>> THEN FALSE
  ELSE IF Head(sub) = Head(full) THEN IsSubsequence(Tail(sub), Tail(full))
  ELSE IsSubsequence(sub, Tail(full))

\* C7: the filter returns exactly the rows of the derived table whose
\* order_type_name is selected, whose days_stuck is in [lo, hi] and (when the
\* status column exists) whose status is selected, in table order; an empty
\* selected set gives no rows.
C7_FilterExact ==
  Uploaded =>
    /\ IsSubsequence(filtered_df, df)
    /\ FilteredRows = Selected(selected_verticals, days_range, selected_statuses)
    /\ Len(filtered_df) = Cardinality(FilteredRows)
    /\ selected_verticals = {} => filtered_df = <<>>
    /\ ("order_status_name" \in uploaded_file.columns /\ selected_statuses = {})
         => filtered_df = <<>>

C7_Witness ==
  /\ Uploaded
  /\ "order_status_name" \in uploaded_file.columns
  /\ selected_statuses # all_statuses(df)
  /\ selected_statuses # {}
  /\ selected_verticals # Range(all_verticals(df))
  /\ days_range[1] = days_range[2]
  /\ filtered_df # <<>>
  /\ Len(filtered_df) < Len(df)

\* the predicate specifications wider than the current one
WiderSpecs ==
  { Q \in [ verticals : SUBSET Range(all_verticals(df)),
            statuses : SUBSET all_statuses(df),
            range : {df[i].days_stuck : i \in DOMAIN df}
                      \X {df[i].days_stuck : i \in DOMAIN df} ] :
      /\ selected_verticals \subseteq Q.verticals
      /\ selected_statuses \subseteq Q.statuses
      /\ Q.range[1] <= days_range[1]
      /\ days_range[2] <= Q.range[2] }

\* C8: filtering is monotone: every row returned under the current predicate
\* specification is returned under every wider one, so its row count is at
\* most theirs.
C8_FilterMonotone ==
  FiltersRendered =>
    \A Q \in WiderSpecs :
      LET wide == filtered(df, uploaded_file.columns, Q.verticals, Q.range, Q.statuses)
      IN /\ FilteredRows \subseteq Range(wide)
         /\ Len(filtered_df) <= Len(wide)

C8_Witness ==
  /\ Uploaded
  /\ filtered_df # <<>>
  /\ \E Q \in WiderSpecs :
       /\ selected_verticals # Q.verticals
       /\ selected_statuses # Q.statuses
       /\ Q.range # days_range
       /\ Len(filtered_df)
            < Len(filtered(df, uploaded_file.columns, Q.verticals, Q.range, Q.statuses))

\* the first filtered record of an account
FirstRowOf(a) ==
  filtered_df[Min({i \in DOMAIN filtered_df : filtered_df[i].account_id = a})]

\* whole days from instant `from` to instant `to`: the integer d with
\* d days <= to - from < d + 1 days
IsWholeDays(d, from, to) ==
  /\ d * TicksPerDay <= to - from
  /\ to - from < (d + 1) * TicksPerDay

\* C9: a user profile is Churned iff its days_since_last_order (whole days
\* from the account's last order to the evaluation instant) is at least
\* churn_threshold, and Active otherwise, for every threshold of the slider.
C9_ChurnedIffAtLeastThreshold ==
  Analysed =>
    /\ churn_threshold \in churn_threshold_min..churn_threshold_max
    /\ \A a \in DOMAIN user_analysis :
         LET p == user_analysis[a] IN
         /\ IsWholeDays(p.days_since_last_order,
                        FirstRowOf(a).account_last_order_created_timestamp,
                        current_time)
         /\ p.user_status \in {"Churned", "Active"}
         /\ p.user_status = "Churned" <=> p.days_since_last_order >= churn_threshold
         /\ (churn_threshold = 30 /\ p.days_since_last_order \in {30, 45})
              => p.user_status = "Churned"
         /\ (churn_threshold = 30 /\ p.days_since_last_order = 10)
              => p.user_status = "Active"

C9_Witness ==
  /\ Analysed
  /\ churn_threshold = 30
  /\ \E a, b \in DOMAIN user_analysis :
       /\ user_analysis[a].days_since_last_order = 45
       /\ user_analysis[a].user_status = "Churned"
       /\ user_analysis[b].days_since_last_order = 10
       /\ user_analysis[b].user_status = "Active"

\* C10: days_first_stuck_to_last_order is the whole-day difference
\* last_order_ts - first_stuck_experience_ts, the latter being the minimum
\* travel_end_ts of the account's filtered records; stuck_timing is
\* 'After Last Order' iff that value is negative; first stuck 2024-01-10 with
\* last order 2024-01-05 gives -5 and 'After Last Order'.
C10_StuckTiming ==
  Analysed =>
    \A a \in DOMAIN user_analysis :
      LET p == user_analysis[a] IN
      /\ p.first_stuck_experience_ts =
           Min({r.travel_end_ts : r \in {q \in FilteredRows : q.account_id = a}})
      /\ p.last_order_ts = FirstRowOf(a).account_last_order_created_timestamp
      /\ IsWholeDays(p.days_first_stuck_to_last_order,
                     p.first_stuck_experience_ts, p.last_order_ts)
      /\ p.stuck_timing \in {"After Last Order", "Before/During Active Period"}
      /\ p.stuck_timing = "After Last Order" <=> p.days_first_stuck_to_last_order < 0
      /\ (p.first_stuck_experience_ts = Jan10 /\ p.last_order_ts = Jan05)
           => /\ p.days_first_stuck_to_last_order = -5
              /\ p.stuck_timing = "After Last Order"

C10_Witness ==
  /\ Analysed
  /\ \E a \in DOMAIN user_analysis :
       /\ user_analysis[a].first_stuck_experience_ts = Jan10
       /\ user_analysis[a].last_order_ts = Jan05
       /\ user_analysis[a].days_first_stuck_to_last_order = -5
       /\ user_analysis[a].stuck_timing = "After Last Order"

(***************************************************************************)
(* C11.  The bucketing of a profile by its number of stuck orders is total *)
(* and non-overlapping on counts >= 1: 1 goes only to '1 stuck order', 2   *)
(* only to '2 stuck orders', 3, 4 and 5 only to '3-5 stuck orders', every  *)
(* count >= 6 only to '5+ stuck orders'; each profile is counted in        *)
(* exactly one row of churn_by_stuck_count.                                *)
(***************************************************************************)
RECURSIVE SumTotalUsers(_)
SumTotalUsers(rows) ==
  IF rows = <<>> THEN 0 ELSE Head(rows).total_users + SumTotalUsers(Tail(rows))

C11_CategoryTotalDisjoint ==
  Analysed =>
    /\ \A a \in DOMAIN user_analysis :
         LET c == user_analysis[a].stuck_orders_count
             cat == user_analysis[a].stuck_order_category
         IN /\ c >= 1
            /\ cat \in Range(Categories)
            /\ (cat = "1 stuck order") <=> (c = 1)
            /\ (cat = "2 stuck orders") <=> (c = 2)
            /\ (cat = "3-5 stuck orders") <=> (c \in 3..5)
            /\ (cat = "5+ stuck orders") <=> (c >= 6)
            /\ Cardinality({ i \in DOMAIN churn_by_stuck_count :
                               churn_by_stuck_count[i].category = cat }) = 1
    /\ SumTotalUsers(churn_by_stuck_count) = Cardinality(DOMAIN user_analysis)

\* a profile with six or more stuck orders, bucketed '5+ stuck orders'
C11_Witness ==
  /\ Analysed
  /\ \E a \in DOMAIN user_analysis :
       /\ user_analysis[a].stuck_orders_count >= 6
       /\ user_analysis[a].stuck_order_category = "5+ stuck orders"

(***************************************************************************)
(* C12.  The churn analysis runs if and only if the extended columns are   *)
(* available, and every use site takes the same decision: without them the *)
(* run completes and produces the derived, the filtered and the cohort     *)
(* table without error; with them the account timestamps are parsed before *)
(* days_since_last_order is computed and the profiles are computed.        *)
(* Stated for files with every required column, no unparseable value and   *)
(* a filtered table with rows.                                             *)
(***************************************************************************)
C12_ExtendedGateUniform ==
  ( /\ Uploaded
    /\ RequiredColumns \subseteq uploaded_file.columns
    /\ uploaded_file.unparseable = {}
    /\ filtered_df # <<>> \/ ingestion_outcome(uploaded_file) # Ingested )
  =>
    LET cols == uploaded_file.columns
        available == ExtendedColumns \cap cols # {}
    IN /\ ParsesAccountTimestamps(cols) <=> ComputesDaysSince(cols)
       /\ ComputesDaysSince(cols) <=> AnalysisGate(uploaded_file)
       /\ Analysed <=> available
       /\ ~available =>
            /\ outcome = Done
            /\ Len(df) = Len(uploaded_file.rows)
            /\ monthly_impact # <<>>
       /\ available =>
            /\ "account_last_order_created_timestamp" \in parsed_cols(uploaded_file)
            /\ outcome \notin {DaysSinceError, ProfileError}

(***************************************************************************)
(* C13.  A file that lacks a required column, or holds a timestamp that    *)
(* cannot be parsed, is rejected as a whole at ingestion: the run ends in  *)
(* an error before any derived metric, filtered table or aggregate is      *)
(* produced.                                                               *)
(***************************************************************************)
Invalid(file) ==
  \/ RequiredColumns \ file.columns # {}
  \/ file.unparseable \cap file.columns # {}

IngestionErrors ==
  {ParseError, DaysStuckError, OrderToTravelError, DaysSinceError, OverviewError}

C13_InvalidInputRejectedAtIngestion ==
  (Uploaded /\ Invalid(uploaded_file)) =>
    /\ outcome \in IngestionErrors
    /\ df = uploaded_file.rows
    /\ filtered_df = <<>>
    /\ monthly_impact = <<>>

(***************************************************************************)
(* C14.  days_stuck is the whole number of days (rounded down) from        *)
(* travel_end_ts to the evaluation instant, by the one rule that also gives*)
(* order_to_travel_days and days_since_last_order; a travel_end_ts after   *)
(* the evaluation instant gives a negative days_stuck and no error; travel *)
(* ends of 2024-01-15 and 2024-02-20 evaluated at 2024-03-01 give 46 and   *)
(* 10.                                                                     *)
(***************************************************************************)
C14_WholeDayMetrics ==
  ( /\ Uploaded
    /\ ~Invalid(uploaded_file)
    /\ ComputesDaysSince(uploaded_file.columns)
         => ParsesAccountTimestamps(uploaded_file.columns) )
  =>
    /\ outcome \notin IngestionErrors
    /\ Len(df) = Len(uploaded_file.rows)
    /\ \A i \in DOMAIN df :
         LET r == df[i] IN
         /\ IsWholeDays(r.days_stuck, r.travel_end_ts, current_time)
         /\ IsWholeDays(r.order_to_travel_days,
                        r.order_created_timestamp, r.travel_start_ts)
         /\ ComputesDaysSince(uploaded_file.columns) =>
              IsWholeDays(r.days_since_last_order,
                          r.account_last_order_created_timestamp, current_time)
         /\ r.travel_end_ts > current_time => r.days_stuck < 0
         /\ (current_time = Mar01 /\ r.travel_end_ts = Jan15) => r.days_stuck = 46
         /\ (current_time = Mar01 /\ r.travel_end_ts = Feb20) => r.days_stuck = 10

\* evaluated at 2024-03-01: 46 and 10 days stuck, and a record that travels
\* later the same day with days_stuck = -1; the run completes
C14_Witness ==
  /\ Uploaded
  /\ current_time = Mar01
  /\ outcome = Done
  /\ \E i, j, k \in DOMAIN df :
       /\ df[i].travel_end_ts = Jan15 /\ df[i].days_stuck = 46
       /\ df[j].travel_end_ts = Feb20 /\ df[j].days_stuck = 10
       /\ df[k].travel_end_ts = Mar01Noon /\ df[k].days_stuck = -1
       /\ df[k].order_to_travel_days = -9

(***************************************************************************)
(* C15.  A recomputation triggered by changing only the churn threshold    *)
(* uses the same evaluation instant and leaves the per-record derived      *)
(* table, the filtered table and the monthly cohort table unchanged.       *)
(***************************************************************************)
C15_ThresholdRerunKeepsTables ==
  [][ SetChurnThreshold =>
        /\ current_time' = current_time
        /\ df' = df
        /\ filtered_df' = filtered_df
        /\ monthly_impact' = monthly_impact ]_vars

(***************************************************************************)
(* C16.  In the monthly cohort series mom_growth of the first month is     *)
(* undefined, never zero; for every later month it is the percent change   *)
(* of the month's new users relative to the new users of the row before    *)
(* it.  The new users of a month are the accounts whose earliest           *)
(* travel_end_ts falls in it.                                              *)
(***************************************************************************)
NewUsersIn(key) ==
  Cardinality({ a \in {r.account_id : r \in FilteredRows} :
                  MonthKey(Min({r.travel_end_ts :
                                  r \in {q \in FilteredRows : q.account_id = a}}))
                    = key })

C16_MomGrowth ==
  (Uploaded /\ monthly_impact # <<>>) =>
    /\ Len(mom_growth) = Len(monthly_impact)
    /\ IsNaN(mom_growth[1])
    /\ \A i \in DOMAIN monthly_impact :
         LET cur == NewUsersIn(monthly_impact[i].year_month_str)
             prev == NewUsersIn(monthly_impact[i - 1].year_month_str)
         IN (i > 1 /\ prev > 0) =>
              /\ ~IsNaN(mom_growth[i])
              /\ Val(mom_growth[i]).den > 0
              /\ Val(mom_growth[i]).num * prev
                   = (cur - prev) * 100 * Val(mom_growth[i]).den

(***************************************************************************)
(* C17.  In every row of the monthly cohort table cumulative_users equals  *)
(* total_users_up_to_month, the number of accounts whose first-impact      *)
(* month is not after the row's month, and existing_users =                *)
(* cumulative_users - new_users_impacted is a defined value >= 0.          *)
(***************************************************************************)
C17_CumulativeAgreesWithCount ==
  Uploaded =>
    \A i \in DOMAIN monthly_impact :
      LET row == monthly_impact[i] IN
      /\ ~IsNaN(row.cumulative_users)
      /\ Val(row.cumulative_users) = row.total_users_up_to_month
      /\ ~IsNaN(row.existing_users)
      /\ ~IsNaN(row.new_users_impacted)
      /\ Val(row.existing_users)
           = Val(row.cumulative_users) - Val(row.new_users_impacted)
      /\ Val(row.existing_users) >= 0

(***************************************************************************)
(* C18.  With the extended columns, a filtered table with rows and no      *)
(* profile with stuck_timing 'Before/During Active Period', the run does   *)
(* not fail on time_to_churn_days of the empty subset or on a division by  *)
(* its size: it completes.                                                 *)
(***************************************************************************)
C18_NoBeforeDuringNoError ==
  (Analysed /\ before_during_users_of(user_analysis) = {}) =>
    /\ user_analysis # <<>>
    /\ outcome = Done

====
